---- MODULE Spec2Model ----
(***************************************************************************)
(* The singleton page of the Keystatic admin UI                            *)
(* (packages/keystatic/src/app/SingletonPage.tsx): the wrapper that loads  *)
(* the committed entry, the stored draft and the collaborative map, the    *)
(* local page (owned state, autosave to the draft store), the              *)
(* collaborative page (state is a view of a shared Yjs map) and the inner  *)
(* page with the submit handler and the retry dialogs.                     *)
(*                                                                         *)
(* Spec      one page instance, in local or collaborative mode, with the   *)
(*           backing store, the draft store and the update coordinator.    *)
(* SpecOpen  two sessions running the wrapper's lookup/create/seed step    *)
(*           (mapData) on the same branch and singleton, each on its own   *)
(*           replica of the Yjs documents, synchronised through a server.  *)
(***************************************************************************)
EXTENDS Integers, Sequences, FiniteSets, TLC

(***************************************************************************)
(* Bounds of the model.                                                    *)
(***************************************************************************)
\* The text field holds one of the values 0..MaxVal; 0 is its default.
MaxVal == 1
\* `new Date()` returns one of the times 0..MaxTime.
MaxTime == 1
\* The sessions make at most MaxWrites edits and resets between them.
MaxWrites == 2
\* At most MaxPending setDraft/delDraft calls are pending at a time.
MaxPending == 2

(***************************************************************************)
(* The schema and its values.                                              *)
(***************************************************************************)
\* Object.entries(singletonConfig.schema): the top-level fields, a text
\* field and an integer field whose default is 0 and whose value may be
\* null (the field left empty).
Fields == {"title", "count"}
\* The field value `null`.
NullVal == -1
FieldVals(f) == IF f = "title" THEN 0..MaxVal ELSE {NullVal, 0}
Values == {v \in [Fields -> NullVal..MaxVal] :
              \A f \in Fields : v[f] \in FieldVals(f)}

\* x ?? d
Coalesce(x, d) == IF x = NullVal THEN d ELSE x

\* `null` / `undefined` and a present value, as sequences of length 0 and 1.
Null == <<>>
Some(v) == <<v>>

\* getInitialPropsValue(schema): every field at its default.
getInitialPropsValue == [f \in Fields |-> 0]

\* clientSideValidateProp(schema, state, undefined): the title is required.
clientSideValidateProp(cur) == cur["title"] # 0

(***************************************************************************)
(* The Schema Value Codec: serializeEntryToFiles and parseEntry.  A file   *)
(* per field; a field value x is written as the byte x + 2, and the byte 0 *)
(* is not the encoding of any value.                                       *)
(***************************************************************************)
serializeEntryToFiles(cur) == [f \in Fields |-> cur[f] + 2]

\* Whether parseEntry accepts the files (it throws otherwise).
parseEntryOk(files) ==
    /\ DOMAIN files = Fields
    /\ \A f \in Fields : files[f] - 2 \in FieldVals(f)

parseEntry(files) == [f \in Fields |-> files[f] - 2]

\* Files that no value serializes to.
CorruptFiles == [f \in Fields |-> 0]

(***************************************************************************)
(* The backing store (useItemData).  The tree key is a fingerprint of the  *)
(* entry's content in the current tree; an entry that does not exist has   *)
(* no tree key.                                                            *)
(***************************************************************************)
\* `undefined` as a tree key: localTreeKey of a 'not-found' entry.
NoKey == 0
Base == MaxVal + 1
TreeKeys == 1..(Base * 2)
AllKeys == {NoKey} \cup TreeKeys

TreeKeyOf(v) == 1 + v["title"] + Base * (v["count"] - NullVal)
TreeValue(k) ==
    [f \in Fields |->
        IF f = "title" THEN (k - 1) % Base
        ELSE NullVal + (((k - 1) \div Base) % 2)]

\* itemData.data === 'not-found' ? null : itemData.data.initialState
initialStateOf(k) == IF k = NoKey THEN Null ELSE Some(TreeValue(k))

\* Mutant: the committed state is forgotten, the default is always used.
BaselineStateAlwaysDefault(initState) == getInitialPropsValue

\* initialState === null ? getInitialPropsValue(schema) : initialState
BaselineState(initState) ==
    IF initState = Null THEN getInitialPropsValue ELSE initState[1]

(***************************************************************************)
(* The draft store (persistence.ts) and the stored record.                 *)
(***************************************************************************)
NoDraft == <<>>

DraftRecord(t, k, files) ==
    [version |-> 1, savedAt |-> t, beforeTreeKey |-> k, files |-> files]

\* storedValSchema.parse(raw) succeeds: version is the literal 1.
storedValSchemaOk(raw) == raw.version = 1

\* What the draft store may hold when the page is first opened: nothing, a
\* record written by an earlier session against any tree, a record of an
\* unknown version, or a record whose files no longer parse.
InitDrafts ==
    {NoDraft}
    \cup {Some(DraftRecord(t, k, serializeEntryToFiles(v))) :
              t \in {0}, k \in {NoKey, 1, 2}, v \in Values}
    \cup {Some(DraftRecord(0, 1, CorruptFiles))}
    \cup {Some([DraftRecord(0, 1, serializeEntryToFiles(getInitialPropsValue))
                  EXCEPT !.version = 2])}

\* With a collaboration session the draft store is not consulted; it holds
\* nothing or a record left by an earlier local session.
InitDraftsCollab ==
    {NoDraft, Some(DraftRecord(0, 1, serializeEntryToFiles(TreeValue(2))))}

VARIABLES
    treeKey,         \* backing store: the entry's current tree key (NoKey: no entry)
    draftStore,      \* draft store: NoDraft or Some(record) for ['singleton', singleton]
    pendingOps,      \* setDraft/delDraft calls made and not yet completed, oldest first
    asyncStore,      \* FALSE: each call completes before the page's next step
    staleWrites,     \* a call completed while a later call was pending
    yjsInfo,         \* useYjsIfAvailable(): TRUE when a collaboration session exists
    ymap,            \* the shared document's 'data' map, empty until seeded
    page,            \* "closed", "local" (LocalSingletonPage) or "collab"
    st,              \* LocalSingletonPage's useState: [localTreeKey, state]
    raw,             \* what getDraft returned to the last step, if it read the store
    toast,           \* the showDraftRestoredToast call of the last step, if any
    updateResult,    \* useUpsertItem's state: the kind of the update result
    requests,        \* commit requests sent to the backing store and not yet answered
    failedPayload,   \* payload of the request whose answer opened the current dialog
    branchOid,       \* the branchOid a needs-new-branch result carries, if that is the result
    baseCommit,      \* useBaseCommit(): the commit of the current branch the app knows
    lastEvent,       \* the handler that made the last step, and its outcome
    \* SpecOpen: the sessions opening the singleton in collaboration
    sessPc,          \* each session's place in mapData: "start", "loading", "done"
    sessDoc,         \* the document each session's mapData returned the map of (0: none yet)
    replRoot,        \* per replica: yjsInfo.data's entry for `${branch}/${singleton}`
    replData,        \* per replica and document: the document's 'data' map
    outbox,          \* per session: the updates made locally and not yet sent
    written          \* the number of edits and resets the sessions have made

Commits == {"c1", "c2"}
FirstCommit == "c1"

pageVars == <<draftStore, pendingOps, asyncStore, staleWrites, yjsInfo, ymap, page, st, raw, toast,
              updateResult, requests, failedPayload, branchOid, baseCommit,
              lastEvent>>
openVars == <<sessPc, sessDoc, replRoot, replData, outbox, written>>
vars == <<treeKey, pageVars, openVars>>

Times == 0..MaxTime

(***************************************************************************)
(* Yjs values: getYjsValFromParsedValue wraps a parsed value in a Yjs      *)
(* type, useYJsValue reads the map back into a plain value.                *)
(***************************************************************************)
getYjsValFromParsedValue(x) == <<x>>

useYJsValue(map) == [f \in Fields |-> map[f][1]]

\* data.size === 0
MapIsEmpty(map) == DOMAIN map = {}
EmptyMap == <<>>

\* The map after `for (const [key, value] of Object.entries(schema))
\* data.set(key, getYjsValFromParsedValue(value, v[key]))`.
MapSetAll(v) == [f \in Fields |-> getYjsValFromParsedValue(v[f])]

(***************************************************************************)
(* SingletonPageWrapper: the draft handed to the local page.               *)
(***************************************************************************)
\* Mutant: the record is not checked against storedValSchema.
draftDataSkipsSchema(store) ==
    IF store = NoDraft THEN Null
    ELSE IF ~parseEntryOk(store[1].files) THEN Null
    ELSE Some([state    |-> parseEntry(store[1].files),
               savedAt  |-> store[1].savedAt,
               treeKey  |-> store[1].beforeTreeKey])

\* draftData.kind === 'loaded' ? draftData.data : undefined
draftData(store) ==
    IF store = NoDraft THEN Null                       \* 'No draft found'
    ELSE IF ~storedValSchemaOk(store[1]) THEN Null     \* storedValSchema.parse throws
    ELSE IF ~parseEntryOk(store[1].files) THEN Null    \* parseEntry throws
    ELSE Some([state    |-> parseEntry(store[1].files),
               savedAt  |-> store[1].savedAt,
               treeKey  |-> store[1].beforeTreeKey])

(***************************************************************************)
(* LocalSingletonPage.                                                     *)
(***************************************************************************)
\* Mutant: the draft is not used for the first state.
InitialLocalStateIgnoresDraft(d, initState, key) ==
    [localTreeKey |-> key,
     state |-> IF initState = Null THEN getInitialPropsValue ELSE initState[1]]

\* useState(() => ({ localTreeKey, state: draft?.state ?? (initialState ===
\* null ? getInitialPropsValue(schema) : initialState) }))
InitialLocalState(d, initState, key) ==
    [localTreeKey |-> key,
     state |-> IF d # Null THEN d[1].state ELSE BaselineState(initState)]

\* Mutant: the comparison of the tree keys is inverted.
TreeChangedFlagInverted(key, d) == key = d[1].treeKey

\* The second argument of showDraftRestoredToast.
TreeChangedFlag(key, d) == key # d[1].treeKey

\* useEffect(() => { if (draft && state === draft.state) showDraftRestoredToast(
\*   draft.savedAt, localTreeKey !== draft.treeKey) }, [draft])
DraftRestoredToast(d, cur, key) ==
    IF d # Null /\ cur = d[1].state
    THEN Some([savedAt |-> d[1].savedAt,
               treeChanged |-> TreeChangedFlag(key, d)])
    ELSE Null

\* Mutant: a new tree key is recorded but the state is kept.
TreeKeyResetKeepsState(s, initState, key) == [s EXCEPT !.localTreeKey = key]

\* if (localTreeKeyInState !== localTreeKey) setState({ localTreeKey, state:
\*   initialState === null ? getInitialPropsValue(schema) : initialState })
TreeKeyReset(s, initState, key) ==
    IF s.localTreeKey # key
    THEN [localTreeKey |-> key, state |-> BaselineState(initState)]
    ELSE s

\* useHasChanged({ initialState, state, schema, slugField: undefined })
useHasChanged(initState, cur) ==
    IF initState = Null THEN TRUE ELSE cur # initState[1]

\* Mutant: the state is compared with the baseline state, which in creation
\* mode is the default.
HasChangedAgainstBaseline(initState, cur) == cur # BaselineState(initState)

\* useHasChanged(...) || isCreating
HasChanged(initState, cur) ==
    IF useHasChanged(initState, cur) THEN TRUE ELSE initState = Null

\* Mutant: the record is written without the tree key.
AutosaveEffectDropsTreeKey(changed, cur, key, t) ==
    IF changed
    THEN Some(DraftRecord(t, NoKey, serializeEntryToFiles(cur)))
    ELSE NoDraft

\* Mutant: the effect never deletes; it saves whatever the state is.
AutosaveEffectAlwaysSaves(changed, cur, key, t) ==
    Some(DraftRecord(t, key, serializeEntryToFiles(cur)))

\* Mutant: the branches of the autosave effect are swapped.
AutosaveEffectInverted(changed, cur, key, t) ==
    IF ~changed
    THEN Some(DraftRecord(t, key, serializeEntryToFiles(cur)))
    ELSE NoDraft

\* The autosave effect: setDraft(key, { beforeTreeKey: localTreeKey, files,
\* savedAt: new Date(), version: 1 }) when hasChanged, delDraft(key) otherwise.
AutosaveEffect(changed, cur, key, t) ==
    IF changed
    THEN Some(DraftRecord(t, key, serializeEntryToFiles(cur)))
    ELSE NoDraft

\* The value CollabSingletonPage.onReset sets each field to:
\* props.initialState?.[key] ?? getInitialPropsValue(value)
CollabResetState(initState) ==
    [f \in Fields |->
        IF initState = Null THEN getInitialPropsValue[f]
        ELSE Coalesce(initState[1][f], getInitialPropsValue[f])]

\* Mutant: the reset forgets the committed state and uses the default.
LocalResetToDefault(initState, key) ==
    [localTreeKey |-> key, state |-> getInitialPropsValue]

\* onReset of the local page.
LocalReset(initState, key) ==
    [localTreeKey |-> key, state |-> BaselineState(initState)]

(***************************************************************************)
(* What the mounted page sees.                                             *)
(***************************************************************************)
localTreeKey == treeKey
initialState == initialStateOf(treeKey)
state == IF page = "collab" THEN useYJsValue(ymap) ELSE st.state
hasChanged == HasChanged(initialState, state)
Mounted == page # "closed"

\* The value of the page's own variables while no page is mounted.
ClosedSt == [localTreeKey |-> NoKey, state |-> getInitialPropsValue]

(***************************************************************************)
(* The replicated Yjs documents of SpecOpen.  Replica 0 is the server; a   *)
(* session's replica carries the session's client id.  A map entry holds   *)
(* the value last set, the logical clock and the client of that set, and   *)
(* the clocks of all entries written by the same transaction.  Of two sets *)
(* of one entry the causally later wins, and of two concurrent sets the    *)
(* one of the higher client id, on every replica alike.                    *)
(***************************************************************************)
Sessions == {1, 2}
Server == 0
Replicas == {Server} \cup Sessions
\* `new Y.Doc()` by session s: a document of its own, named after s.
DocIds == Sessions
NoDoc == 0

Entry(c, cl, v, t) == [clock |-> c, client |-> cl, val |-> v, txn |-> t]

\* Whether entry a wins over entry b.
Wins(a, b) ==
    IF a.clock # b.clock THEN a.clock > b.clock ELSE a.client >= b.client

\* A map is a function from the keys set so far to their entries.
MergeMap(m1, m2) ==
    [k \in DOMAIN m1 \cup DOMAIN m2 |->
        IF k \notin DOMAIN m2 THEN m1[k]
        ELSE IF k \notin DOMAIN m1 THEN m2[k]
        ELSE IF Wins(m1[k], m2[k]) THEN m1[k] ELSE m2[k]]

\* The clock of the next set of key k on map m.
NextClock(m, k) == IF k \in DOMAIN m THEN m[k].clock + 1 ELSE 1

\* The entries written by setting every key of `vals` on map m by client cl,
\* all in one transaction.
SetAll(m, cl, vals) ==
    LET clocks == [k \in DOMAIN vals |-> NextClock(m, k)]
    IN [k \in DOMAIN vals |-> Entry(clocks[k], cl, vals[k], clocks)]

\* Mutant: the writes are made outside a transaction, one update per entry.
UpdatesPerEntry(target, writes) ==
    LET RECURSIVE Each(_)
        Each(ks) ==
            IF ks = {} THEN <<>>
            ELSE LET k == CHOOSE x \in ks : TRUE
                 IN <<[target |-> target, writes |-> [j \in {k} |-> writes[k]]]>>
                    \o Each(ks \ {k})
    IN Each(DOMAIN writes)

\* doc.transact(() => { ... map.set(key, val) ... }): the writes leave the
\* replica as one update.
Transact(target, writes) == <<[target |-> target, writes |-> writes]>>

\* The root map yjsInfo.data has the one key `${branch}/${singleton}`.
RootKey == "branch/singleton"
RootTarget == 0

\* The values written by the seed and by the collaborative reset.
SeedVals(initState) == MapSetAll(BaselineState(initState))

\* The values of the page's variables in SpecOpen, and of the sessions'
\* variables in Spec.
OpenIdle ==
    /\ sessPc = [s \in Sessions |-> "start"]
    /\ sessDoc = [s \in Sessions |-> NoDoc]
    /\ replRoot = [r \in Replicas |-> EmptyMap]
    /\ replData = [r \in Replicas |-> [d \in DocIds |-> EmptyMap]]
    /\ outbox = [s \in Sessions |-> <<>>]
    /\ written = 0

\* No setDraft or delDraft call is pending, and in Spec, SpecOpen and
\* SpecRetry none ever is: each completes before the page's next step.
StoreIdle ==
    /\ pendingOps = <<>>
    /\ asyncStore = FALSE
    /\ staleWrites = FALSE

Init ==
    /\ treeKey \in AllKeys
    /\ yjsInfo \in BOOLEAN
    /\ draftStore \in IF yjsInfo THEN InitDraftsCollab ELSE InitDrafts
    /\ StoreIdle
    /\ ymap = EmptyMap
    /\ page = "closed"
    /\ st = ClosedSt
    /\ raw = Null
    /\ toast = Null
    /\ updateResult = "idle"
    /\ requests = <<>>
    /\ failedPayload = Null
    /\ branchOid = Null
    /\ baseCommit = FirstCommit
    /\ lastEvent = "init"
    /\ OpenIdle

(***************************************************************************)
(* SingletonPageWrapper renders the page once itemData, draftData and      *)
(* mapData are loaded.                                                     *)
(***************************************************************************)
\* mapData's seed: if (!data.size) doc.transact(() => { data.set(key, ...) })
SeededMap(map, initState) ==
    IF MapIsEmpty(map) THEN MapSetAll(BaselineState(initState)) ELSE map

\* Mutant: a call is dropped while another is pending.
IssueDraftOpUnlessPending(queue, op) ==
    IF queue = <<>> THEN <<op>> ELSE queue

\* setDraft(key, data) / delDraft(key), not awaited: the call is made on
\* every run of the effect, whatever is still pending.  An operation is
\* written as the store content it leaves.
IssueDraftOp(queue, op) == Append(queue, op)

\* The autosave effect of a render with state cur under the tree key k; the
\* time it reads is any of Times.
RunAutosave(cur, k) ==
    LET changed == HasChanged(initialStateOf(k), cur)
    IN \E t \in IF changed THEN Times ELSE {0} :
          IF asyncStore
          THEN /\ Len(pendingOps) < MaxPending
               /\ pendingOps' =
                    IssueDraftOp(pendingOps, AutosaveEffect(changed, cur, k, t))
               /\ UNCHANGED draftStore
          ELSE /\ draftStore' = AutosaveEffect(changed, cur, k, t)
               /\ UNCHANGED pendingOps

\* Mutant: the collaborative page restores the stored draft and autosaves
\* as the local page does.
MountCollabRestoresDraft ==
    /\ UNCHANGED <<openVars, baseCommit, asyncStore, staleWrites>>
    /\ page = "closed"
    /\ yjsInfo
    /\ LET d == draftData(draftStore)
           s == InitialLocalState(d, initialState, localTreeKey)
       IN /\ ymap' = IF MapIsEmpty(ymap) THEN MapSetAll(s.state) ELSE ymap
          /\ RunAutosave(s.state, localTreeKey)
    /\ page' = "collab"
    /\ toast' = Null
    /\ raw' = Null
    /\ lastEvent' = "mount"
    /\ UNCHANGED <<treeKey, yjsInfo, st, updateResult, requests,
                   failedPayload, branchOid>>

\* if (mapData.data) return <CollabSingletonPage ... map={mapData.data} />
MountCollab ==
    /\ UNCHANGED <<openVars, baseCommit, asyncStore, staleWrites>>
    /\ page = "closed"
    /\ yjsInfo
    /\ ymap' = SeededMap(ymap, initialState)
    /\ page' = "collab"
    /\ toast' = Null
    /\ raw' = Null
    /\ lastEvent' = "mount"
    /\ UNCHANGED <<treeKey, draftStore, pendingOps, yjsInfo, st, updateResult, requests,
                   failedPayload, branchOid>>

\* return <LocalSingletonPage ... draft={...} />: the first render, the
\* toast effect and the autosave effect.
MountLocal ==
    /\ UNCHANGED <<openVars, baseCommit, asyncStore, staleWrites>>
    /\ page = "closed"
    /\ ~yjsInfo
    /\ LET d == draftData(draftStore)
           s == InitialLocalState(d, initialState, localTreeKey)
       IN /\ raw' = draftStore
          /\ st' = s
          /\ toast' = DraftRestoredToast(d, s.state, localTreeKey)
          /\ RunAutosave(s.state, localTreeKey)
    /\ page' = "local"
    /\ lastEvent' = "mount"
    /\ UNCHANGED <<treeKey, yjsInfo, ymap, updateResult, requests,
                   failedPayload, branchOid>>

\* Leaving the page unmounts it; the component state is dropped.  The
\* coordinator's outstanding request is no longer tracked: what it does to
\* the backing store afterwards is one of the changes TreeChange makes.
Close ==
    /\ UNCHANGED <<openVars, baseCommit, asyncStore, staleWrites>>
    /\ Mounted
    /\ page' = "closed"
    /\ st' = ClosedSt
    /\ toast' = Null
    /\ raw' = Null
    /\ updateResult' = "idle"
    /\ requests' = <<>>
    /\ failedPayload' = Null
    /\ branchOid' = Null
    /\ lastEvent' = "close"
    /\ UNCHANGED <<treeKey, draftStore, pendingOps, yjsInfo, ymap>>

(***************************************************************************)
(* A render of the local page under the tree key k, followed by the        *)
(* autosave effect.                                                        *)
(***************************************************************************)
LocalRender(s, k) ==
    LET s2 == TreeKeyReset(s, initialStateOf(k), k)
    IN /\ st' = s2
       /\ RunAutosave(s2.state, k)

\* The form's onChange (previewProps): field f becomes x.  In collaborative
\* mode the edit goes to the shared map, and a collaborator may edit too.
Edit(who, f, x) ==
    /\ UNCHANGED <<openVars, baseCommit, asyncStore, staleWrites>>
    /\ Mounted
    /\ who = "collaborator" => page = "collab"
    /\ x # state[f]
    /\ IF page = "local"
       THEN /\ LocalRender([st EXCEPT !.state[f] = x], localTreeKey)
            /\ UNCHANGED ymap
       ELSE /\ ymap' = [ymap EXCEPT ![f] = getYjsValFromParsedValue(x)]
            /\ UNCHANGED <<st, draftStore, pendingOps>>
    /\ toast' = Null
    /\ raw' = Null
    /\ lastEvent' = IF who = "user" THEN "edit" ELSE "remote-edit"
    /\ UNCHANGED <<treeKey, yjsInfo, page, updateResult, requests,
                   failedPayload, branchOid>>

\* The entry's tree changes in the backing store (a branch switch, a pull,
\* somebody else's commit).
TreeChange(k) ==
    /\ UNCHANGED <<openVars, baseCommit, asyncStore, staleWrites>>
    /\ k # treeKey
    /\ treeKey' = k
    /\ IF page = "local"
       THEN LocalRender(st, k)
       ELSE UNCHANGED <<st, draftStore, pendingOps>>
    /\ toast' = Null
    /\ raw' = Null
    /\ lastEvent' = IF Mounted /\ hasChanged
                    THEN "tree-change-dirty" ELSE "tree-change"
    /\ UNCHANGED <<yjsInfo, ymap, page, updateResult, requests, failedPayload, branchOid>>

(***************************************************************************)
(* The update coordinator (useUpsertItem) and SingletonPageInner.          *)
(***************************************************************************)
\* A commit request: the serialized files, and for a retry from a dialog the
\* payload of the request the dialog answered.
\* `answered` is the branchOid of the result the request answers, if that
\* result carried one.
CommitRequest(files, isRetry, orig, target, base, oid) ==
    [payload |-> files, retry |-> isRetry, retryOf |-> orig,
     branch |-> target, sha |-> base, answered |-> oid]

\* The branchOid a needs-new-branch answer to the request req carries: the
\* commit the request was based on, or the branch's commit as the app now
\* knows it.
ResultOids(req) == {req.sha, baseCommit}

\* <CreateBranchDuringUpdateDialog branchOid={baseCommit} ...>: the commit
\* the dialog creates the new branch from.
DialogBranchOid == baseCommit

\* Mutant: the retry is based on the branchOid the result carries.
RetryShaFromResult == branchOid[1]

\* props.onUpdate({ branch: newBranch, sha: baseCommit }): the retry's sha.
RetrySha == baseCommit

\* The override the create-branch dialog's onCreate passes to onUpdate.
RetryOverride == Some([branch |-> "new", sha |-> RetrySha])

\* The branch and the base sha update commits against: the override's when
\* one is passed, the current branch and its base commit otherwise.
updateBranch(override) ==
    IF override = Null THEN "current" ELSE override[1].branch

updateSha(override) ==
    IF override = Null THEN baseCommit ELSE override[1].sha

\* Mutant: a retry serializes the editable state again.
updatePayloadRereadsState(kind, cur, failed) == serializeEntryToFiles(cur)

\* What update submits: the current editable state, serialized; on a retry
\* after branch creation or fork (the result is needs-new-branch or
\* needs-fork) the files already serialized for the request that failed.
updatePayload(kind, cur, failed) ==
    IF kind \in {"needs-new-branch", "needs-fork"}
    THEN failed[1]
    ELSE serializeEntryToFiles(cur)

\* update(options?): a no-op while the result is loading; otherwise sends
\* one commit request and sets the result to loading.
update(isRetry, override) ==
    IF updateResult = "loading"
    THEN UNCHANGED <<requests, updateResult, failedPayload, branchOid>>
    ELSE /\ requests' = Append(requests,
                CommitRequest(updatePayload(updateResult, state, failedPayload),
                              isRetry, failedPayload,
                              updateBranch(override), updateSha(override),
                              branchOid))
         /\ updateResult' = "loading"
         /\ failedPayload' = Null
         /\ branchOid' = Null

\* Mutant: onCreate does not look at the result being loading.
onCreateProceedsWhileLoading(kind, changed) == changed

\* onCreate's first line: `if (props.updateResult.kind === 'loading' ||
\* !props.hasChanged) return;` -- TRUE when the handler goes on.
onCreateProceeds(kind, changed) == ~(kind = "loading" \/ ~changed)

\* `if (!clientSideValidateProp(schema, props.state, undefined)) {
\* setForceValidation(true); return; }` -- TRUE when the handler goes on.
onCreateValid(cur) == clientSideValidateProp(cur)

\* onCreate, as called by the form's onSubmit.
onCreate ==
    /\ UNCHANGED <<openVars, baseCommit, asyncStore, staleWrites>>
    /\ Mounted
    /\ IF ~onCreateProceeds(updateResult, hasChanged)
       THEN /\ lastEvent' = "submit-ignored"
            /\ UNCHANGED <<updateResult, requests, failedPayload, branchOid>>
       ELSE IF ~onCreateValid(state)
       THEN /\ lastEvent' = "submit-invalid"       \* setForceValidation(true)
            /\ UNCHANGED <<updateResult, requests, failedPayload, branchOid>>
       ELSE /\ update(FALSE, Null)
            /\ lastEvent' = "submit-sent"
    /\ toast' = Null
    /\ raw' = Null
    /\ UNCHANGED <<treeKey, draftStore, pendingOps, yjsInfo, ymap, page, st>>

\* CreateBranchDuringUpdateDialog is rendered while the result is
\* needs-new-branch; its onCreate pushes the new branch's route and calls
\* props.onUpdate({ branch: newBranch, sha: baseCommit }).
RetryAfterBranch ==
    /\ UNCHANGED <<openVars, baseCommit, asyncStore, staleWrites>>
    /\ Mounted
    /\ updateResult = "needs-new-branch"
    /\ update(TRUE, RetryOverride)
    /\ toast' = Null
    /\ raw' = Null
    /\ lastEvent' = "retry-branch"
    /\ UNCHANGED <<treeKey, draftStore, pendingOps, yjsInfo, ymap, page, st>>

\* ForkRepoDialog is rendered while the result is needs-fork (GitHub
\* storage); its onCreate calls props.onUpdate().
RetryAfterFork ==
    /\ UNCHANGED <<openVars, baseCommit, asyncStore, staleWrites>>
    /\ Mounted
    /\ updateResult = "needs-fork"
    /\ update(TRUE, Null)
    /\ toast' = Null
    /\ raw' = Null
    /\ lastEvent' = "retry-fork"
    /\ UNCHANGED <<treeKey, draftStore, pendingOps, yjsInfo, ymap, page, st>>

\* onDismiss of either dialog: props.onResetUpdateItem.
DismissDialog ==
    /\ UNCHANGED <<openVars, baseCommit, asyncStore, staleWrites>>
    /\ Mounted
    /\ updateResult \in {"needs-new-branch", "needs-fork"}
    /\ updateResult' = "idle"
    /\ failedPayload' = Null
    /\ branchOid' = Null
    /\ toast' = Null
    /\ raw' = Null
    /\ lastEvent' = "dismiss"
    /\ UNCHANGED <<treeKey, draftStore, pendingOps, yjsInfo, ymap, page, st, requests>>

Remove(seq, i) == SubSeq(seq, 1, i - 1) \o SubSeq(seq, i + 1, Len(seq))

\* The answers of the backing store to a commit request.
Answers == {"success", "error", "needs-new-branch", "needs-fork"}

\* The backing store answers a commit request.  Success commits the payload:
\* the entry's tree becomes the submitted content and the result returns to
\* idle; the other answers become the result.
Respond(i, answer) ==
    /\ UNCHANGED <<openVars, baseCommit, asyncStore, staleWrites>>
    /\ i \in 1..Len(requests)
    /\ requests' = Remove(requests, i)
    /\ IF answer = "success"
       THEN /\ updateResult' = "idle"
            /\ treeKey' = TreeKeyOf(parseEntry(requests[i].payload))
            /\ IF page = "local"
               THEN LocalRender(st, TreeKeyOf(parseEntry(requests[i].payload)))
               ELSE UNCHANGED <<st, draftStore, pendingOps>>
            /\ failedPayload' = Null
            /\ branchOid' = Null
       ELSE /\ updateResult' = answer
            /\ failedPayload' =
                 IF answer = "error" THEN Null ELSE Some(requests[i].payload)
            /\ IF answer = "needs-new-branch"
               THEN \E oid \in ResultOids(requests[i]) : branchOid' = Some(oid)
               ELSE branchOid' = Null
            /\ UNCHANGED <<treeKey, st, draftStore, pendingOps>>
    /\ toast' = Null
    /\ raw' = Null
    /\ lastEvent' = "response"
    /\ UNCHANGED <<yjsInfo, ymap, page>>

\* The map after CollabSingletonPage.onReset's transaction.
CollabResetMap(initState) == MapSetAll(CollabResetState(initState))

\* The Reset menu action (disabled unless hasChanged): props.onReset().  The
\* collaborative page sets every field in one transaction, waits for the
\* sync and reloads the window.
onReset ==
    /\ UNCHANGED <<openVars, baseCommit, asyncStore, staleWrites>>
    /\ Mounted
    /\ hasChanged
    /\ IF page = "local"
       THEN /\ LocalRender(LocalReset(initialState, localTreeKey), localTreeKey)
            /\ UNCHANGED <<ymap, page, updateResult, requests, failedPayload, branchOid>>
       ELSE /\ ymap' = CollabResetMap(initialState)
            /\ page' = "closed"
            /\ st' = ClosedSt
            /\ updateResult' = "idle"
            /\ requests' = <<>>
            /\ failedPayload' = Null
            /\ branchOid' = Null
            /\ UNCHANGED <<draftStore, pendingOps>>
    /\ toast' = Null
    /\ raw' = Null
    /\ lastEvent' = "reset"
    /\ UNCHANGED <<treeKey, yjsInfo>>

Next ==
    \/ MountLocal
    \/ MountCollab
    \/ Close
    \/ \E who \in {"user", "collaborator"}, f \in Fields :
          \E x \in FieldVals(f) : Edit(who, f, x)
    \/ \E k \in AllKeys : TreeChange(k)
    \/ onCreate
    \/ RetryAfterBranch
    \/ RetryAfterFork
    \/ DismissDialog
    \/ \E i \in 1..Len(requests), answer \in Answers : Respond(i, answer)
    \/ onReset

Spec == Init /\ [][Next]_vars

(***************************************************************************)
(* SpecRetry: the local page and the update coordinator while the branch's *)
(* commit moves (somebody pushes, the app refetches the branch).  Spec     *)
(* leaves the base commit where it is.                                     *)
(***************************************************************************)
InitRetry ==
    /\ Init
    /\ ~yjsInfo
    /\ draftStore = NoDraft

\* useBaseCommit() returns another commit; SingletonPageInner is rendered
\* again, and so is the dialog it shows, with the new value.
BaseCommitChange(c) ==
    /\ c # baseCommit
    /\ baseCommit' = c
    /\ toast' = Null
    /\ raw' = Null
    /\ lastEvent' = "base-commit"
    /\ UNCHANGED <<treeKey, draftStore, pendingOps, yjsInfo, ymap, page, st, updateResult,
                   requests, failedPayload, branchOid, openVars, asyncStore,
                   staleWrites>>

NextRetry ==
    \/ MountLocal
    \/ Close
    \/ \E f \in Fields : \E x \in FieldVals(f) : Edit("user", f, x)
    \/ onCreate
    \/ RetryAfterBranch
    \/ RetryAfterFork
    \/ DismissDialog
    \/ \E i \in 1..Len(requests), answer \in Answers : Respond(i, answer)
    \/ \E c \in Commits : BaseCommitChange(c)

SpecRetry == InitRetry /\ [][NextRetry]_vars

(***************************************************************************)
(* SpecAutosave: the local page with a Draft Store whose operations        *)
(* complete some time after the call, while the page goes on.  The store   *)
(* (./persistence) completes the calls on one key in the order they were   *)
(* made.                                                                   *)
(***************************************************************************)
\* The entry does not exist, or exists with the default value.
AutosaveKeys == {NoKey, TreeKeyOf(getInitialPropsValue)}

InitAutosave ==
    /\ treeKey \in AutosaveKeys
    /\ yjsInfo = FALSE
    /\ draftStore \in {d \in InitDrafts : d = NoDraft \/ d[1].beforeTreeKey = NoKey}
    /\ pendingOps = <<>>
    /\ asyncStore = TRUE
    /\ staleWrites = FALSE
    /\ ymap = EmptyMap
    /\ page = "closed"
    /\ st = ClosedSt
    /\ raw = Null
    /\ toast = Null
    /\ updateResult = "idle"
    /\ requests = <<>>
    /\ failedPayload = Null
    /\ branchOid = Null
    /\ baseCommit = FirstCommit
    /\ lastEvent = "init"
    /\ OpenIdle

\* The oldest pending call completes: the store holds what it wrote.
CompleteDraftOp ==
    /\ asyncStore
    /\ pendingOps # <<>>
    /\ draftStore' = Head(pendingOps)
    /\ pendingOps' = Tail(pendingOps)
    /\ staleWrites' = (staleWrites \/ Len(pendingOps) > 1)
    /\ UNCHANGED <<treeKey, asyncStore, yjsInfo, ymap, page, st, raw, toast,
                   updateResult, requests, failedPayload, branchOid,
                   baseCommit, lastEvent, openVars>>

NextAutosave ==
    \/ MountLocal
    \/ \E f \in Fields : \E x \in FieldVals(f) : Edit("user", f, x)
    \/ \E k \in AutosaveKeys : TreeChange(k)
    \/ onReset
    \/ CompleteDraftOp

SpecAutosave == InitAutosave /\ [][NextAutosave]_vars

(***************************************************************************)
(* SpecOpen: mapData in two sessions.  Both have synced the root document  *)
(* (await yjsInfo.doc.whenSynced) and loaded the same committed entry.     *)
(***************************************************************************)
InitOpen ==
    /\ treeKey \in AllKeys
    /\ draftStore = NoDraft
    /\ StoreIdle
    /\ yjsInfo = TRUE
    /\ ymap = EmptyMap
    /\ page = "closed"
    /\ st = ClosedSt
    /\ raw = Null
    /\ toast = Null
    /\ updateResult = "idle"
    /\ requests = <<>>
    /\ failedPayload = Null
    /\ branchOid = Null
    /\ baseCommit = FirstCommit
    /\ lastEvent = "init"
    /\ OpenIdle

\* useYJsValue(schema, props.map) on the session's replica of its document.
SessionState(s) ==
    [f \in Fields |-> replData[s][sessDoc[s]][f].val[1]]

\* let doc = yjsInfo.data.get(key); the document is there: doc.load() and
\* wait for whenLoaded.
OpenFound(s) ==
    /\ sessPc[s] = "start"
    /\ RootKey \in DOMAIN replRoot[s]
    /\ sessDoc' = [sessDoc EXCEPT ![s] = replRoot[s][RootKey].val]
    /\ sessPc' = [sessPc EXCEPT ![s] = "loading"]
    /\ UNCHANGED <<treeKey, pageVars, replRoot, replData, outbox, written>>

\* The document is not there: doc = new Y.Doc(); yjsInfo.data.set(key, doc);
\* then, with no await in between, the new document's empty map is seeded.
OpenCreate(s) ==
    /\ sessPc[s] = "start"
    /\ RootKey \notin DOMAIN replRoot[s]
    /\ LET reg == SetAll(replRoot[s], s, [k \in {RootKey} |-> s])
           seed == SetAll(replData[s][s], s, SeedVals(initialState))
       IN /\ replRoot' = [replRoot EXCEPT ![s] = MergeMap(@, reg)]
          /\ replData' = [replData EXCEPT ![s][s] = MergeMap(@, seed)]
          /\ outbox' = [outbox EXCEPT ![s] =
                           @ \o Transact(RootTarget, reg) \o Transact(s, seed)]
    /\ sessDoc' = [sessDoc EXCEPT ![s] = s]
    /\ sessPc' = [sessPc EXCEPT ![s] = "done"]
    /\ UNCHANGED <<treeKey, pageVars, written>>

\* whenLoaded resolves: the replica has the server's copy of the document.
\* const data = doc.getMap('data'); if (!data.size) the map is seeded.
OpenLoaded(s) ==
    /\ sessPc[s] = "loading"
    /\ LET d == sessDoc[s]
           loaded == MergeMap(replData[s][d], replData[Server][d])
           seed == IF MapIsEmpty(loaded)
                   THEN SetAll(loaded, s, SeedVals(initialState))
                   ELSE EmptyMap
       IN /\ replData' = [replData EXCEPT ![s][d] = MergeMap(loaded, seed)]
          /\ outbox' = [outbox EXCEPT ![s] =
                           IF MapIsEmpty(loaded) THEN @ \o Transact(d, seed) ELSE @]
    /\ sessPc' = [sessPc EXCEPT ![s] = "done"]
    /\ UNCHANGED <<treeKey, pageVars, sessDoc, replRoot, written>>

\* The collaborative page's onChange: one entry of the session's map is set.
OpenEdit(s, f, x) ==
    /\ sessPc[s] = "done"
    /\ written < MaxWrites
    /\ written' = written + 1
    /\ LET d == sessDoc[s]
           w == SetAll(replData[s][d], s, [k \in {f} |-> getYjsValFromParsedValue(x)])
       IN /\ f \in DOMAIN replData[s][d]
          /\ replData[s][d][f].val # getYjsValFromParsedValue(x)
          /\ replData' = [replData EXCEPT ![s][d] = MergeMap(@, w)]
          /\ outbox' = [outbox EXCEPT ![s] = @ \o Transact(d, w)]
    /\ UNCHANGED <<treeKey, pageVars, sessPc, sessDoc, replRoot>>

\* CollabSingletonPage.onReset (the menu action is disabled unless
\* hasChanged): props.map.doc.transact(() => { for every field
\* props.map.set(key, val) }).
OpenReset(s) ==
    /\ sessPc[s] = "done"
    /\ written < MaxWrites
    /\ written' = written + 1
    /\ HasChanged(initialState, SessionState(s))
    /\ LET d == sessDoc[s]
           w == SetAll(replData[s][d], s,
                       MapSetAll(CollabResetState(initialState)))
       IN /\ replData' = [replData EXCEPT ![s][d] = MergeMap(@, w)]
          /\ outbox' = [outbox EXCEPT ![s] = @ \o Transact(d, w)]
    /\ UNCHANGED <<treeKey, pageVars, sessPc, sessDoc, replRoot>>

\* The provider sends the session's oldest unsent update to the server.
Push(s) ==
    /\ outbox[s] # <<>>
    /\ LET u == Head(outbox[s])
       IN IF u.target = RootTarget
          THEN /\ replRoot' = [replRoot EXCEPT ![Server] = MergeMap(@, u.writes)]
               /\ UNCHANGED replData
          ELSE /\ replData' = [replData EXCEPT
                                 ![Server][u.target] = MergeMap(@, u.writes)]
               /\ UNCHANGED replRoot
    /\ outbox' = [outbox EXCEPT ![s] = Tail(@)]
    /\ UNCHANGED <<treeKey, pageVars, sessPc, sessDoc, written>>

\* The provider brings the session's replica of the root document up to the
\* server's.
PullRoot(s) ==
    /\ replRoot[s] # MergeMap(replRoot[s], replRoot[Server])
    /\ replRoot' = [replRoot EXCEPT ![s] = MergeMap(@, replRoot[Server])]
    /\ UNCHANGED <<treeKey, pageVars, sessPc, sessDoc, replData, outbox, written>>

\* The provider brings the session's replica of its loaded document up to
\* the server's.
PullData(s) ==
    /\ sessPc[s] = "done"
    /\ LET d == sessDoc[s]
       IN /\ replData[s][d] # MergeMap(replData[s][d], replData[Server][d])
          /\ replData' = [replData EXCEPT ![s][d] = MergeMap(@, replData[Server][d])]
    /\ UNCHANGED <<treeKey, pageVars, sessPc, sessDoc, replRoot, outbox, written>>

NextOpen ==
    \/ \E s \in Sessions : OpenFound(s)
    \/ \E s \in Sessions : OpenCreate(s)
    \/ \E s \in Sessions : OpenLoaded(s)
    \/ \E s \in Sessions, f \in Fields :
          \E x \in FieldVals(f) : OpenEdit(s, f, x)
    \/ \E s \in Sessions : OpenReset(s)
    \/ \E s \in Sessions : Push(s)
    \/ \E s \in Sessions : PullRoot(s)
    \/ \E s \in Sessions : PullData(s)

SpecOpen == InitOpen /\ [][NextOpen]_vars


(***************************************************************************)
(* Properties of the page (Spec).                                          *)
(***************************************************************************)
\* The local page was mounted by the last step.
JustMountedLocal == lastEvent = "mount" /\ page = "local"

\* C1: in local mode, when the stored draft decodes and its beforeTreeKey is
\* the current tree key, the first editable state is the draft's decoded
\* value and the restoration toast is shown with 'tree changed' false.
C1_ValidDraftRestored ==
    (JustMountedLocal /\ draftData(raw) # Null
        /\ raw[1].beforeTreeKey = treeKey)
    => /\ st.state = parseEntry(raw[1].files)
       /\ toast = Some([savedAt |-> raw[1].savedAt, treeChanged |-> FALSE])

\* A valid draft that differs from the committed state has been restored.
C1_Witness ==
    /\ JustMountedLocal
    /\ draftData(raw) # Null
    /\ raw[1].beforeTreeKey = treeKey
    /\ treeKey # NoKey
    /\ st.state # TreeValue(treeKey)
    /\ toast # Null

\* C2: in local mode, when the stored draft decodes and its beforeTreeKey
\* differs from the current tree key (either may be undefined), the first
\* editable state is still the draft's decoded value and the toast is shown
\* with 'tree changed' true.
C2_StaleDraftRestored ==
    (JustMountedLocal /\ draftData(raw) # Null
        /\ raw[1].beforeTreeKey # treeKey)
    => /\ st.state = parseEntry(raw[1].files)
       /\ toast = Some([savedAt |-> raw[1].savedAt, treeChanged |-> TRUE])

\* A draft taken when the entry did not exist is restored over an entry
\* that exists now.
C2_Witness ==
    /\ JustMountedLocal
    /\ draftData(raw) # Null
    /\ raw[1].beforeTreeKey = NoKey
    /\ treeKey # NoKey
    /\ st.state # TreeValue(treeKey)
    /\ toast # Null

\* C3: in local mode with no stored draft, the first editable state is the
\* committed state's value when the entry exists and the schema default
\* when it does not, and no restoration toast is shown.
C3_NoDraftInitialState ==
    (JustMountedLocal /\ raw = NoDraft)
    => /\ treeKey # NoKey => st.state = TreeValue(treeKey)
       /\ treeKey = NoKey => st.state = getInitialPropsValue
       /\ toast = Null

\* An existing entry whose content is not the default, opened with no draft.
C3_Witness ==
    /\ JustMountedLocal
    /\ raw = NoDraft
    /\ treeKey # NoKey
    /\ st.state # getInitialPropsValue

\* C4: for an existing entry in local mode, once the autosave effect has run
\* for the latest state, the draft store holds a draft exactly when the
\* editable state differs from the committed state.
C4_DraftIffChanged ==
    (page = "local" /\ treeKey # NoKey)
    => ((draftStore # NoDraft) <=> (st.state # TreeValue(treeKey)))

\* An edit back to the committed state has deleted the draft.
C4_Witness ==
    /\ page = "local"
    /\ lastEvent = "edit"
    /\ treeKey # NoKey
    /\ st.state = TreeValue(treeKey)
    /\ draftStore = NoDraft

C9_TreeChangeReloads ==
    [][(page = "local" /\ page' = "local" /\ treeKey' # treeKey
            /\ ~hasChanged /\ draftStore = NoDraft)
        => st'.state = IF treeKey' = NoKey THEN getInitialPropsValue
                       ELSE TreeValue(treeKey')]_vars

\* The tree changed under a page without unsaved edits, to an entry whose
\* content is not the default.
C9_Witness ==
    /\ page = "local"
    /\ lastEvent = "tree-change"
    /\ treeKey # NoKey
    /\ st.state = TreeValue(treeKey)
    /\ st.state # getInitialPropsValue

\* C10 (as claimed): no step that calls onUpdate (the form's submit, the
\* retry after branch creation, the retry after a fork) sends a request
\* while the editable state fails clientSideValidateProp.
C10_InvalidNeverSubmitted ==
    lastEvent \in {"submit-sent", "retry-branch", "retry-fork"}
    => clientSideValidateProp(state)

\* A retry has sent a request while the editable state fails validation.
C10_Witness ==
    /\ lastEvent \in {"retry-branch", "retry-fork"}
    /\ Len(requests) = 1
    /\ ~clientSideValidateProp(state)

\* C11: a stored record that fails storedValSchema (a version other than 1
\* among them) or whose files fail parseEntry is not used: the local page
\* is mounted all the same, its first state is the committed state's value
\* (the default when the entry does not exist) and no toast is shown, as
\* with no draft.
C11_UndecodableDraftIgnored ==
    (JustMountedLocal /\ raw # NoDraft
        /\ (~storedValSchemaOk(raw[1]) \/ ~parseEntryOk(raw[1].files)))
    => /\ st.state = BaselineState(initialState)
       /\ toast = Null

\* A record of version 2 whose files would parse to another state than the
\* committed one has been ignored.
C11_Witness ==
    /\ JustMountedLocal
    /\ raw # NoDraft
    /\ ~storedValSchemaOk(raw[1])
    /\ parseEntryOk(raw[1].files)
    /\ treeKey # NoKey
    /\ st.state = TreeValue(treeKey)
    /\ st.state # parseEntry(raw[1].files)

\* C12: with a collaboration session no step sets or deletes the stored
\* draft, and the state the collaborative page is mounted with is the
\* shared map's (seeded from the committed state when empty), whatever the
\* draft store holds.
C12_CollabLeavesDraftStore ==
    [][yjsInfo =>
         /\ draftStore' = draftStore
         /\ (page = "closed" /\ page' = "collab")
               => useYJsValue(ymap') =
                    IF MapIsEmpty(ymap) THEN BaselineState(initialState)
                    ELSE useYJsValue(ymap)]_vars

\* A submit has succeeded on the collaborative page while the draft store
\* holds a draft of another state.
C12_Witness ==
    /\ page = "collab"
    /\ lastEvent = "response"
    /\ updateResult = "idle"
    /\ draftStore # NoDraft
    /\ state # parseEntry(draftStore[1].files)

\* C13 (as claimed): the autosave effect run again for the state, hasChanged
\* and tree key of the stored draft (the page reopened on the same tree
\* with the draft restored) leaves the record as it was in every field.
C13_AutosaveIdempotent ==
    (JustMountedLocal /\ draftData(raw) # Null
        /\ raw[1].beforeTreeKey = treeKey /\ hasChanged)
    => draftStore = raw

\* C13 (amended): the record after the second run has the version,
\* beforeTreeKey and files of the first; savedAt is the time of the second
\* run.
C13_AutosaveIdempotentButTime ==
    (JustMountedLocal /\ draftData(raw) # Null
        /\ raw[1].beforeTreeKey = treeKey /\ hasChanged)
    => /\ draftStore # NoDraft
       /\ draftStore[1].version = raw[1].version
       /\ draftStore[1].beforeTreeKey = raw[1].beforeTreeKey
       /\ draftStore[1].files = raw[1].files
       /\ draftStore[1].savedAt \in Times

\* The second run has written a record that differs from the first in
\* savedAt only, for an existing entry.
C13_Witness ==
    /\ JustMountedLocal
    /\ draftData(raw) # Null
    /\ treeKey # NoKey
    /\ raw[1].beforeTreeKey = treeKey
    /\ hasChanged
    /\ draftStore # NoDraft
    /\ draftStore[1].savedAt # raw[1].savedAt
    /\ draftStore[1].files = raw[1].files

\* C14 (as claimed): the local page opened with no stored draft, and not
\* edited, leaves the draft store without a draft.
C14_NoDraftWithoutEdit ==
    (JustMountedLocal /\ raw = NoDraft) => draftStore = NoDraft

\* An entry that does not exist was opened with no stored draft, and the
\* draft store holds a draft of the default state.
C14_Witness ==
    /\ JustMountedLocal
    /\ raw = NoDraft
    /\ treeKey = NoKey
    /\ draftStore # NoDraft
    /\ parseEntry(draftStore[1].files) = getInitialPropsValue

\* C15: when a submit succeeds on the local page and the tree key advances,
\* the draft store holds no draft once the page has rendered on the new
\* tree, for an entry that existed and for one that was being created.
C15_DraftDeletedAfterCommit ==
    [][(page = "local" /\ page' = "local" /\ updateResult = "loading"
            /\ updateResult' = "idle" /\ treeKey' # treeKey)
        => draftStore' = NoDraft]_vars

\* A created entry has been committed and its draft is gone.
C15_Witness ==
    /\ page = "local"
    /\ lastEvent = "response"
    /\ updateResult = "idle"
    /\ treeKey # NoKey
    /\ st.state = TreeValue(treeKey)
    /\ draftStore = NoDraft

\* C16 (as claimed): after the collaborative reset every field of the
\* shared map holds the value the seed would write (the committed value,
\* null included; the default when the entry does not exist), so for an
\* existing entry hasChanged is false.
C16_CollabResetRestoresBaseline ==
    (lastEvent = "reset" /\ yjsInfo)
    => /\ ymap = MapSetAll(BaselineState(initialState))
       /\ treeKey # NoKey => ~HasChanged(initialState, useYJsValue(ymap))

\* The collaborative reset of an entry whose committed count is null has
\* set the count to its default.
C16_Witness ==
    /\ lastEvent = "reset"
    /\ yjsInfo
    /\ treeKey # NoKey
    /\ TreeValue(treeKey)["count"] = NullVal
    /\ useYJsValue(ymap)["count"] = getInitialPropsValue["count"]

\* C17: the local reset sets the editable state to the committed state's
\* value (the default when the entry does not exist) and leaves
\* updateResult as it was; for an existing entry hasChanged is then false
\* and the stored draft is deleted.
C17_LocalResetToBaseline ==
    [][(page = "local" /\ lastEvent' = "reset")
        => /\ st'.state = BaselineState(initialState)
           /\ updateResult' = updateResult
           /\ treeKey # NoKey
                 => /\ ~HasChanged(initialState, st'.state)
                    /\ draftStore' = NoDraft]_vars

\* An existing entry whose content is not the default was reset while a
\* request was outstanding.
C17_Witness ==
    /\ page = "local"
    /\ lastEvent = "reset"
    /\ updateResult = "loading"
    /\ treeKey # NoKey
    /\ st.state = TreeValue(treeKey)
    /\ st.state # getInitialPropsValue
    /\ draftStore = NoDraft

\* C18: while the entry does not exist (initialState is null) hasChanged is
\* true on the mounted page, local or collaborative, whatever the state.
C18_CreationAlwaysChanged ==
    (Mounted /\ treeKey = NoKey) => hasChanged

\* The page of an entry being created has just been reset to the default.
C18_Witness ==
    /\ page = "local"
    /\ lastEvent = "reset"
    /\ treeKey = NoKey
    /\ st.state = getInitialPropsValue
    /\ hasChanged

\* C19 (as claimed): when the tree key changes under the local page of an
\* existing entry with unsaved edits, the edited value is afterwards still
\* the editable state or in the stored draft.
C19_EditsSurviveTreeChange ==
    [][(page = "local" /\ page' = "local" /\ treeKey' # treeKey
            /\ treeKey # NoKey /\ hasChanged)
        => \/ st'.state = st.state
           \/ /\ draftStore' # NoDraft
              /\ draftStore'[1].files = serializeEntryToFiles(st.state)]_vars

\* The tree changed under unsaved edits and no draft is left.
C19_Witness ==
    /\ page = "local"
    /\ lastEvent = "tree-change-dirty"
    /\ treeKey # NoKey
    /\ st.state = TreeValue(treeKey)
    /\ draftStore = NoDraft

\* C20 (as claimed): the local page opened on a stored draft whose
\* beforeTreeKey differs from the current tree key, and not edited, leaves
\* the stored draft with the beforeTreeKey it had.
C20_StalenessKept ==
    (JustMountedLocal /\ draftData(raw) # Null
        /\ raw[1].beforeTreeKey # treeKey)
    => /\ draftStore # NoDraft
       /\ draftStore[1].beforeTreeKey = raw[1].beforeTreeKey

\* The page was opened on a stale draft and the stored draft now carries
\* the current tree key.
C20_Witness ==
    /\ JustMountedLocal
    /\ draftData(raw) # Null
    /\ raw[1].beforeTreeKey # treeKey
    /\ draftStore # NoDraft
    /\ draftStore[1].beforeTreeKey = treeKey
    /\ draftStore[1].files = raw[1].files

\* What LocalSingletonPage shows when it is mounted with the stored record
\* rec: its first state and the toast.
MountedView(rec) ==
    LET d == draftData(rec)
        s == InitialLocalState(d, initialStateOf(treeKey), treeKey)
    IN <<s, DraftRestoredToast(d, s.state, treeKey)>>

\* C23: when the stored record fails to decode, the page just mounted shows
\* something that the page mounted with no stored record does not show (a
\* notice), so that the two outcomes can be told apart.
C23_CorruptDraftDistinguishable ==
    (JustMountedLocal /\ raw # NoDraft /\ draftData(raw) = Null)
    => <<st, toast>> # MountedView(NoDraft)

\* A record of version 1 whose files do not parse has been read, and the
\* page shows the committed state with no toast.
C23_Witness ==
    /\ JustMountedLocal
    /\ raw # NoDraft
    /\ storedValSchemaOk(raw[1])
    /\ ~parseEntryOk(raw[1].files)
    /\ <<st, toast>> = MountedView(NoDraft)
    /\ toast = Null

\* A commit request sent by the create-branch dialog's confirmation.
BranchRetry(req) == req.retry /\ req.branch = "new"

AllDone == \A s \in Sessions : sessPc[s] = "done"

\* C7 (as claimed): once both sessions have finished the lookup/create/seed
\* step, both use the same document, it is the document every replica has
\* registered under the key, and every field as seeded holds the committed
\* value.
C7_OneSharedDocument ==
    AllDone =>
        /\ \A s, t \in Sessions : sessDoc[s] = sessDoc[t]
        /\ \A r \in Replicas, s \in Sessions :
              RootKey \in DOMAIN replRoot[r]
              => replRoot[r][RootKey].val = sessDoc[s]
        /\ \A s \in Sessions, f \in Fields :
              LET e == replData[s][sessDoc[s]][f]
              IN e.clock = 1 => e.val = SeedVals(initialState)[f]

\* Both sessions are done, every update has reached every replica, and the
\* sessions hold different documents.
C7_Witness ==
    /\ AllDone
    /\ \A s \in Sessions : outbox[s] = <<>> /\ replRoot[s] = replRoot[Server]
    /\ \E s, t \in Sessions : sessDoc[s] # sessDoc[t]

\* An entry of a map together with what its transaction wrote: every other
\* entry of that transaction is in the map too, or has been overwritten by
\* a set that wins over it.
EntryWhole(m, f) ==
    \A g \in DOMAIN m[f].txn :
        /\ g \in DOMAIN m
        /\ Wins(m[g], [clock |-> m[f].txn[g], client |-> m[f].client])

\* C8: on every replica (the server's and each session's) a document's
\* 'data' map is empty or has every top-level field, and holds no entry of
\* a seed or reset without the other entries that seed or reset wrote.
C8_SeedAndResetAtomic ==
    \A r \in Replicas, d \in DocIds :
        LET m == replData[r][d]
        IN /\ DOMAIN m \in {{}, Fields}
           /\ \A f \in DOMAIN m : EntryWhole(m, f)

\* Another session holds the entries of a reset (the second write of every
\* field, by one client in one transaction).
C8_Witness ==
    \E s \in Sessions, r \in Sessions, d \in DocIds :
        /\ r # s
        /\ sessPc[r] = "done" /\ sessDoc[r] = d
        /\ DOMAIN replData[r][d] = Fields
        /\ \A f \in Fields :
              /\ replData[r][d][f].client = s
              /\ replData[r][d][f].clock = 2
              /\ DOMAIN replData[r][d][f].txn = Fields

====
